---- MODULE Spec2Model ----
(***************************************************************************)
(* Draftly: the AI reply service of the browser extension                  *)
(* (src/ai-service.js): DraftlyAIService.generateEmailReply, RateLimiter   *)
(* and ConsentManager, together with the chrome.storage.sync record they   *)
(* persist to and the provider's completion endpoint.                      *)
(*                                                                         *)
(* Time is Date.now() counted in whole seconds: every window of the source *)
(* is a multiple of 1000 ms, and the comparisons keep their strictness.    *)
(***************************************************************************)
EXTENDS Integers, Sequences, FiniteSets, TLC

(* ------------------------------ bounds --------------------------------- *)
\* Date.now() when the behaviour starts.
Now0 == 20000000
\* generateEmailReply (or bare recordRequest) calls made in one behaviour.
MaxCalls == 2
\* simultaneous callers of generateEmailReply that the model provides for.
NumCallers == 2
\* the instants after Now0 at which anything is observed (seconds after Now0).
Offsets == {0, 1, 60}
\* the instants an hour and more after Now0 (seconds after Now0).
LongOffsets == {3599, 3600, 3660}

Callers == 1..NumCallers

(* ------------------------- program constants --------------------------- *)
maxRequestsPerMinute == 15
maxRequestsPerHour == 100
\* 60 * 1000 ms
windowSizeMinute == 60
\* 60 * 60 * 1000 ms
windowSizeHour == 3600
\* 6 * 30 * 24 * 60 * 60 * 1000 ms
sixMonths == 6 * 30 * 24 * 60 * 60
\* null / undefined timestamp: falsy, and 0 in arithmetic
NoTimestamp == 0
\* Math.min() of no arguments
Infinity == 2000000000

(* ------------------------------ state ---------------------------------- *)
VARIABLES
    clock,            \* Date.now()
    requests,         \* RateLimiter.requests
    consentGiven,     \* ConsentManager.consentGiven
    consentTimestamp, \* ConsentManager.consentTimestamp
    consentVersion,   \* ConsentManager.consentVersion
    apiKey,           \* DraftlyAIService.apiKey
    isInitialized,    \* DraftlyAIService.isInitialized
    sync,             \* chrome.storage.sync
    usage_stats,      \* chrome.storage.local usage_stats (its length)
    pc,               \* per caller: where its generateEmailReply is suspended
    call,             \* per caller: the locals of its generateEmailReply
    ui,               \* the consent operation the popup has in flight
    ret,              \* the value the rate limiter last returned
    started,          \* calls made so far that may add to the ledger
    generateBtn,      \* the popup's generate button
    regenerateBtn,    \* the popup's regenerate button
    emailInput,       \* the popup's text field
    currentInput      \* the popup's last submitted input

vars == <<clock, requests, consentGiven, consentTimestamp, consentVersion,
          apiKey, isInitialized, sync, usage_stats, pc, call, ui, ret, started,
          generateBtn, regenerateBtn, emailInput, currentInput>>

\* the popup's own state
popupVars == <<generateBtn, regenerateBtn, emailInput, currentInput>>

limiterVars == <<requests>>
consentVars == <<consentGiven, consentTimestamp, consentVersion>>
callVars == <<pc, call>>

(* ------------------------------ helpers -------------------------------- *)
Max(a, b) == IF a >= b THEN a ELSE b

SeqMin(s) == CHOOSE m \in {s[i] : i \in DOMAIN s} :
                 \A i \in DOMAIN s : m <= s[i]

\* Math.min(...list)
MathMin(s) == IF s = <<>> THEN Infinity ELSE SeqMin(s)

\* n copies of t
Burst(n, t) == [i \in 1..n |-> t]

(* ----------------------------- RateLimiter ----------------------------- *)
\* InWindow with the edge of the window counted in
InWindowInclusive(now, window, time) == now - time <= window

InWindow(now, window, time) == now - time < window

\* this.requests.filter(time => now - time < window)
Filter(reqs, now, window) ==
    SelectSeq(reqs, LAMBDA time : InWindow(now, window, time))

cleanOldRequests(reqs, now) == Filter(reqs, now, windowSizeHour)

\* canMakeRequest letting one request more through in a minute
canMakeRequestOffByOne(reqs, now) ==
    LET cleaned == cleanOldRequests(reqs, now)
        recentRequests == Filter(cleaned, now, windowSizeMinute)
        hourlyRequests == Filter(cleaned, now, windowSizeHour)
    IN  IF Len(recentRequests) > maxRequestsPerMinute
        THEN FALSE
        ELSE Len(hourlyRequests) < maxRequestsPerHour

\* canMakeRequest counting the whole ledger against the hourly cap, whatever
\* the age of its entries
canMakeRequestNoExpiry(reqs, now) ==
    LET recentRequests == Filter(reqs, now, windowSizeMinute)
    IN  IF Len(recentRequests) >= maxRequestsPerMinute
        THEN FALSE
        ELSE Len(reqs) < maxRequestsPerHour

\* the value canMakeRequest returns; the ledger it leaves is cleanOldRequests
canMakeRequest(reqs, now) ==
    LET cleaned == cleanOldRequests(reqs, now)
        recentRequests == Filter(cleaned, now, windowSizeMinute)
        hourlyRequests == Filter(cleaned, now, windowSizeHour)
    IN  IF Len(recentRequests) >= maxRequestsPerMinute
        THEN FALSE
        ELSE Len(hourlyRequests) < maxRequestsPerHour

recordRequest(reqs, now) == Append(reqs, now)

\* getResetTime measuring from the oldest entry of the whole ledger
getResetTimeOfOldest(reqs, now) ==
    IF Len(reqs) = 0 THEN 0
    ELSE Max(0, windowSizeMinute - (now - MathMin(reqs)))

getResetTime(reqs, now) ==
    IF Len(reqs) = 0 THEN 0
    ELSE LET oldestRecentRequest == MathMin(Filter(reqs, now, windowSizeMinute))
         IN  IF oldestRecentRequest = Infinity
             THEN Infinity
             ELSE Max(0, windowSizeMinute - (now - oldestRecentRequest))

\* getUsageStats with its two windows exchanged
getUsageStatsSwapped(reqs, now) ==
    [requestsThisMinute |-> Len(Filter(reqs, now, windowSizeHour)),
     maxPerMinute |-> maxRequestsPerMinute,
     requestsThisHour |-> Len(Filter(reqs, now, windowSizeMinute)),
     maxPerHour |-> maxRequestsPerHour,
     resetTime |-> getResetTime(reqs, now)]

getUsageStats(reqs, now) ==
    [requestsThisMinute |-> Len(Filter(reqs, now, windowSizeMinute)),
     maxPerMinute |-> maxRequestsPerMinute,
     requestsThisHour |-> Len(Filter(reqs, now, windowSizeHour)),
     maxPerHour |-> maxRequestsPerHour,
     resetTime |-> getResetTime(reqs, now)]

(* --------------------------- strings as text --------------------------- *)
\* A string is the sequence of its characters.
Blank(ch) == ch = " "

RECURSIVE TrimStart(_)
TrimStart(s) == IF s # <<>> /\ Blank(Head(s)) THEN TrimStart(Tail(s)) ELSE s

RECURSIVE TrimEnd(_)
TrimEnd(s) ==
    IF s # <<>> /\ Blank(s[Len(s)]) THEN TrimEnd(SubSeq(s, 1, Len(s) - 1)) ELSE s

\* String.prototype.trim
Trim(s) == TrimEnd(TrimStart(s))

\* String.prototype.startsWith
startsWith(s, prefix) ==
    Len(s) >= Len(prefix) /\ SubSeq(s, 1, Len(prefix)) = prefix

\* undefined, and the empty string: both falsy
NoKey == <<>>
\* the key the constructor assigns
DefaultKey == <<"m", "y", " ", "a", "p", "i", " ", "k", "e", "y">>
\* a key of the provider's format
ValidKey == <<"s", "k", "-", "t", "e", "s", "t">>
\* a key the user may type that is not of the provider's format
BadKey == <<"p", "k", "-", "1">>
KeyPrefix == <<"s", "k", "-">>

\* String.prototype.toLowerCase on the tones the callers pass
toLowerCase(tone) == IF tone = "Formal" THEN "formal" ELSE tone

\* the tones a caller may pass: the four of the popup's selector, one written
\* with a capital, and one that no template knows
Tones == {"professional", "friendly", "formal", "casual", "Formal", "sarcastic"}

\* the tones createSystemPrompt has a template for
toneInstructions == {"professional", "friendly", "formal", "casual"}

\* the template createSystemPrompt uses for a tone
createSystemPrompt(tone) ==
    IF tone \in toneInstructions THEN tone ELSE "professional"

\* the texts a caller may pass as input
InputBlank == <<" ", " ">>
InputShort == <<" ", "H", "i", " ">>
InputValid == <<"P", "l", "e", "a", "s", "e", " ", "r", "e", "p", "l", "y">>
Inputs == {InputBlank, InputShort, InputValid}

(* ----------------------------- the store ------------------------------- *)
\* what chrome.storage.sync.get(['user_consent', ...]) resolves with
ConsentRecord(s) ==
    [user_consent |-> s.user_consent,
     consent_timestamp |-> s.consent_timestamp,
     consent_version |-> s.consent_version]

NoRecord ==
    [user_consent |-> "absent", consent_timestamp |-> NoTimestamp,
     consent_version |-> "absent"]

(* --------------------------- ConsentManager ---------------------------- *)
\* initialize loading the flag and the version and not the timestamp
initializeFlagOnly(r, now) ==
    LET given == r.user_consent = "true"
        expired == given /\ r.consent_timestamp # NoTimestamp
                         /\ r.consent_timestamp < now - sixMonths
    IN  [consentGiven |-> given /\ ~expired,
         consentTimestamp |-> NoTimestamp,
         consentVersion |-> r.consent_version]

\* the fields ConsentManager.initialize leaves, given what the store returned
initialize(r, now) ==
    LET given == r.user_consent = "true"
        sixMonthsAgo == now - sixMonths
        expired == given /\ r.consent_timestamp # NoTimestamp
                         /\ r.consent_timestamp < sixMonthsAgo
    IN  [consentGiven |-> given /\ ~expired,
         consentTimestamp |-> r.consent_timestamp,
         consentVersion |-> r.consent_version]

\* ConsentManager.getConsentInfo
getConsentInfo(given, timestamp, version) ==
    [granted |-> given,
     timestamp |-> timestamp,
     version |-> version,
     expiresAt |-> IF timestamp # NoTimestamp
                   THEN timestamp + sixMonths ELSE NoTimestamp]

(* ------------------------------ DraftlyAIService ----------------------- *)
\* DraftlyAIService.hasAPIKey
hasAPIKey(key) == key # NoKey /\ startsWith(key, KeyPrefix)

(* ------------------------------ the provider --------------------------- *)
QuotaMessage == "You exceeded your current quota"
LimitMessage == "Rate limit reached"
\* no error message: the body has none, or does not parse
NoMessage == ""

ContentNone == <<>>
ContentBlank == <<" ", " ">>
ContentText == <<" ", "S", "u", "r", "e", ".", " ">>

Response(status, message, choices, content) ==
    [status |-> status, message |-> message, choices |-> choices,
     content |-> content]

\* what the completion endpoint may answer
Responses ==
    {Response(200, NoMessage, 1, ContentText),
     Response(200, NoMessage, 1, ContentBlank),
     Response(200, NoMessage, 1, ContentNone),
     Response(200, NoMessage, 0, ContentNone),
     Response(401, NoMessage, 0, ContentNone),
     Response(429, QuotaMessage, 0, ContentNone),
     Response(429, LimitMessage, 0, ContentNone),
     Response(429, NoMessage, 0, ContentNone),
     Response(400, NoMessage, 0, ContentNone),
     Response(403, NoMessage, 0, ContentNone),
     Response(500, LimitMessage, 0, ContentNone),
     Response(503, QuotaMessage, 0, ContentNone)}

\* no answer yet
NoResponse == Response(0, NoMessage, 0, ContentNone)

\* response.ok
ok(resp) == resp.status >= 200 /\ resp.status <= 299

\* errorMessage.includes('quota')
includesQuota(message) == message = QuotaMessage

\* callOpenAI looking for the quota wording before it looks at the status
callOpenAIQuotaFirst(resp) ==
    IF ~ok(resp) /\ includesQuota(resp.message)
    THEN [kind |-> "QuotaExceeded", text |-> <<>>, code |-> 0]
    ELSE IF ~ok(resp)
    THEN [kind |-> IF resp.status = 401 THEN "AuthError"
                   ELSE IF resp.status = 429 THEN "ProviderRateLimited"
                   ELSE IF resp.status = 400 THEN "BadRequest"
                   ELSE IF resp.status = 403 THEN "Forbidden"
                   ELSE "ProviderError",
          text |-> <<>>,
          code |-> IF resp.status \in {401, 429, 400, 403}
                   THEN 0 ELSE resp.status]
    ELSE IF resp.choices = 0 \/ Trim(resp.content) = <<>>
    THEN [kind |-> "EmptyCompletion", text |-> <<>>, code |-> 0]
    ELSE [kind |-> "Ok", text |-> Trim(resp.content), code |-> 0]

\* callOpenAI returning the content of the first choice as it came
callOpenAIUntrimmed(resp) ==
    IF ~ok(resp)
    THEN [kind |-> IF resp.status = 401 THEN "AuthError"
                   ELSE IF resp.status = 429 /\ includesQuota(resp.message)
                        THEN "QuotaExceeded"
                   ELSE IF resp.status = 429 THEN "ProviderRateLimited"
                   ELSE IF resp.status = 400 THEN "BadRequest"
                   ELSE IF resp.status = 403 THEN "Forbidden"
                   ELSE "ProviderError",
          text |-> <<>>,
          code |-> IF resp.status \in {401, 429, 400, 403}
                   THEN 0 ELSE resp.status]
    ELSE IF resp.choices = 0 \/ resp.content = <<>>
    THEN [kind |-> "EmptyCompletion", text |-> <<>>, code |-> 0]
    ELSE [kind |-> "Ok", text |-> resp.content, code |-> 0]

\* callOpenAI once the endpoint has answered: the failure it throws, or "Ok"
\* and the reply it returns
callOpenAI(resp) ==
    LET reply == Trim(resp.content)
        Fail(kind) ==
            [kind |-> kind, text |-> <<>>,
             code |-> IF kind = "ProviderError" THEN resp.status ELSE 0]
    IN  IF ~ok(resp)
        THEN IF resp.status = 401 THEN Fail("AuthError")
             ELSE IF resp.status = 429
                  THEN IF includesQuota(resp.message)
                       THEN Fail("QuotaExceeded")
                       ELSE Fail("ProviderRateLimited")
             ELSE IF resp.status = 400 THEN Fail("BadRequest")
             ELSE IF resp.status = 403 THEN Fail("Forbidden")
             ELSE Fail("ProviderError")
        ELSE IF resp.choices = 0 THEN Fail("EmptyCompletion")
        ELSE IF reply = <<>> THEN Fail("EmptyCompletion")
        ELSE [kind |-> "Ok", text |-> reply, code |-> 0]

\* generateEmailReply's first check: the tones it lets through
toneAllowed(tone) == toLowerCase(tone) \in {"formal", "casual"}

\* generateEmailReply from the API key check to the call of fetch, all of it
\* synchronous: the failure thrown, or "fetch" when the request is issued;
\* the ledger canMakeRequest leaves; whether the limiter was consulted
Admission(key, reqs, now, input) ==
    LET cleaned == cleanOldRequests(reqs, now)
        Out(kind, ledger, consulted, resetTime) ==
            [kind |-> kind, requests |-> ledger, consulted |-> consulted,
             resetTime |-> resetTime]
    IN  IF key = NoKey
        THEN Out("MissingCredential", reqs, FALSE, 0)
        ELSE IF ~canMakeRequest(reqs, now)
        THEN Out("RateLimited", cleaned, TRUE, getResetTime(cleaned, now))
        ELSE IF input = <<>> \/ Len(Trim(input)) = 0
        THEN Out("EmptyInput", cleaned, TRUE, 0)
        ELSE IF ~startsWith(key, KeyPrefix)
        THEN Out("InvalidCredentialFormat", cleaned, TRUE, 0)
        ELSE Out("fetch", cleaned, TRUE, 0)

(* ------------------------------ initial states ------------------------- *)
TenDays == 10 * 24 * 60 * 60
TwoHundredDays == 200 * 24 * 60 * 60

Store(consent, timestamp, version, key) ==
    [user_consent |-> consent, consent_timestamp |-> timestamp,
     consent_version |-> version, openai_api_key |-> key]

\* what an earlier session may have left in the store: nothing (a first
\* run); a key and a consent granted 180 days ago to the second; a key and a
\* consent granted 200 days ago
Stores ==
    {Store("absent", NoTimestamp, "absent", NoKey),
     Store("true", Now0 - sixMonths, "1.0", ValidKey),
     Store("true", Now0 - TwoHundredDays, "1.0", ValidKey)}

\* ledgers of a service that has been answering requests for an hour:
\* 14 requests in this second, behind one made an hour ago to the second
LedgerMinute ==
    <<Now0 - windowSizeHour>> \o Burst(maxRequestsPerMinute - 1, Now0)

\* six full minutes of requests, the first of them 3599 s ago
SixMinutes ==
    Burst(maxRequestsPerMinute, Now0 - 3599) \o
    Burst(maxRequestsPerMinute, Now0 - 3539) \o
    Burst(maxRequestsPerMinute, Now0 - 3479) \o
    Burst(maxRequestsPerMinute, Now0 - 3419) \o
    Burst(maxRequestsPerMinute, Now0 - 3359) \o
    Burst(maxRequestsPerMinute, Now0 - 3299)

\* 99 requests in the last hour, none of them in the last minute
LedgerHour == SixMinutes \o Burst(9, Now0 - 100)

\* 100 requests in the last hour, none of them in the last minute
LedgerHourFull == SixMinutes \o Burst(10, Now0 - 100)

\* a service in use: its ledger and the time of the grant it has cached
Used(ledger, grantedAt) == [requests |-> ledger, grantedAt |-> grantedAt]

UsedServices ==
    {Used(LedgerMinute, Now0 - sixMonths),
     Used(LedgerHour, Now0 - TenDays),
     Used(LedgerHourFull, Now0 - TenDays)}

IdleCall ==
    [input |-> <<>>, tone |-> "formal", rd |-> NoRecord, kind |-> "none",
     resetTime |-> 0, text |-> <<>>, consulted |-> FALSE, gateway |-> 0,
     recorded |-> 0, requests0 |-> <<>>, resp |-> NoResponse, code |-> 0,
     tracked |-> 0]

IdleUi == [op |-> "idle", rd |-> NoRecord]

\* what a method of the rate limiter returned: a boolean (canMakeRequest), a
\* number (getResetTime), or the counts and the resetTime of getUsageStats
Ret(op, value, num) ==
    [op |-> op, ok |-> value, num |-> num,
     requestsThisMinute |-> 0, requestsThisHour |-> 0]

RetStats(stats) ==
    [op |-> "getUsageStats", ok |-> FALSE, num |-> stats.resetTime,
     requestsThisMinute |-> stats.requestsThisMinute,
     requestsThisHour |-> stats.requestsThisHour]

\* a service just constructed (the popup has just opened) over whatever an
\* earlier session left in the store
InitFresh ==
    /\ requests = <<>>
    /\ consentGiven = FALSE
    /\ consentTimestamp = NoTimestamp
    /\ consentVersion = "absent"
    /\ apiKey = DefaultKey
    /\ isInitialized = FALSE
    /\ sync \in Stores

\* a service that has been in use: its requests were admitted and answered,
\* so it is initialized, holds a key and has consent cached from a grant that
\* was valid when it was loaded
InitUsed ==
    /\ \E u \in UsedServices :
           /\ requests = u.requests
           /\ consentTimestamp = u.grantedAt
    /\ consentGiven = TRUE
    /\ consentVersion = "1.0"
    /\ apiKey = ValidKey
    /\ isInitialized = TRUE
    /\ sync = Store("true", consentTimestamp, "1.0", ValidKey)

Init ==
    /\ clock = Now0
    /\ usage_stats = 0
    /\ pc = [c \in Callers |-> "idle"]
    /\ call = [c \in Callers |-> IdleCall]
    /\ ui = IdleUi
    /\ ret = Ret("none", FALSE, 0)
    /\ started = 0
    /\ generateBtn = [disabled |-> FALSE]
    /\ regenerateBtn = [disabled |-> FALSE]
    /\ emailInput = [value |-> <<>>]
    /\ currentInput = <<>>
    /\ (InitFresh \/ InitUsed)

\* two requests in the last minute, the older of them 59 s ago
LedgerGap == <<Now0 - 59, Now0>>

\* a ledger whose only entry is more than an hour old: the limiter has not
\* been asked for admission since
LedgerStale == <<Now0 - windowSizeHour - 1>>

\* the states in which the rate limiter is exercised alone: those of Init,
\* and a service in use with any of the ledgers above
InitLimiter ==
    /\ clock = Now0
    /\ usage_stats = 0
    /\ pc = [c \in Callers |-> "idle"]
    /\ call = [c \in Callers |-> IdleCall]
    /\ ui = IdleUi
    /\ ret = Ret("none", FALSE, 0)
    /\ started = 0
    /\ generateBtn = [disabled |-> FALSE]
    /\ regenerateBtn = [disabled |-> FALSE]
    /\ emailInput = [value |-> <<>>]
    /\ currentInput = <<>>
    /\ \/ InitFresh
       \/ InitUsed
       \/ /\ requests \in {LedgerGap, LedgerStale}
          /\ consentGiven = TRUE
          /\ consentTimestamp = Now0 - TenDays
          /\ consentVersion = "1.0"
          /\ apiKey = ValidKey
          /\ isInitialized = TRUE
          /\ sync = Store("true", consentTimestamp, "1.0", ValidKey)

(* ------------------------------ the clock ------------------------------ *)
Tick ==
    /\ \E o \in Offsets : Now0 + o > clock /\ clock' = Now0 + o
    /\ UNCHANGED <<requests, consentGiven, consentTimestamp, consentVersion,
                   apiKey, isInitialized, sync, usage_stats, pc, call,
                   ui, ret, started, popupVars>>

(* ----------------- what the popup calls on the service ----------------- *)
\* rateLimiter.canMakeRequest()
CanMakeRequest ==
    /\ requests' = cleanOldRequests(requests, clock)
    /\ ret' = Ret("canMakeRequest", canMakeRequest(requests, clock), 0)
    /\ UNCHANGED <<clock, consentGiven, consentTimestamp, consentVersion,
                   apiKey, isInitialized, sync, usage_stats, pc, call,
                   ui, started, popupVars>>

\* rateLimiter.recordRequest(): it returns nothing
RecordRequest ==
    /\ started < MaxCalls
    /\ started' = started + 1
    /\ requests' = recordRequest(requests, clock)
    /\ ret' = Ret("recordRequest", FALSE, 0)
    /\ UNCHANGED <<clock, consentGiven, consentTimestamp, consentVersion,
                   apiKey, isInitialized, sync, usage_stats, pc, call, ui,
                   popupVars>>

\* rateLimiter.getResetTime()
GetResetTime ==
    /\ ret' = Ret("getResetTime", FALSE, getResetTime(requests, clock))
    /\ UNCHANGED <<clock, requests, consentGiven, consentTimestamp,
                   consentVersion, apiKey, isInitialized, sync, usage_stats,
                   pc, call, ui, started, popupVars>>

\* rateLimiter.getUsageStats()
GetUsageStats ==
    /\ ret' = RetStats(getUsageStats(requests, clock))
    /\ UNCHANGED <<clock, requests, consentGiven, consentTimestamp,
                   consentVersion, apiKey, isInitialized, sync, usage_stats,
                   pc, call, ui, started, popupVars>>

\* consentManager.hasConsent(), up to its await
HasConsentStart ==
    /\ ui.op = "idle"
    /\ IF consentGiven
       THEN ui' = ui
       ELSE ui' = [op |-> "hasConsent", rd |-> ConsentRecord(sync)]
    /\ UNCHANGED <<clock, requests, consentGiven, consentTimestamp,
                   consentVersion, apiKey, isInitialized, sync, usage_stats,
                   pc, call, ret, started, popupVars>>

\* HasConsentDone with an initialize that writes the expiry it finds back to
\* the store
HasConsentDoneWritesBack ==
    /\ ui.op = "hasConsent"
    /\ LET f == initialize(ui.rd, clock)
       IN  /\ consentGiven' = f.consentGiven
           /\ consentTimestamp' = f.consentTimestamp
           /\ consentVersion' = f.consentVersion
           /\ IF ui.rd.user_consent = "true" /\ ~f.consentGiven
              THEN sync' = [sync EXCEPT !.user_consent = "false",
                                        !.consent_timestamp = NoTimestamp]
              ELSE sync' = sync
    /\ ui' = IdleUi
    /\ UNCHANGED <<clock, requests, apiKey, isInitialized, usage_stats,
                   pc, call, ret, started, popupVars>>

\* consentManager.hasConsent(), once the store has answered initialize
HasConsentDone ==
    /\ ui.op = "hasConsent"
    /\ LET f == initialize(ui.rd, clock)
       IN  /\ consentGiven' = f.consentGiven
           /\ consentTimestamp' = f.consentTimestamp
           /\ consentVersion' = f.consentVersion
    /\ ui' = IdleUi
    /\ UNCHANGED <<clock, requests, apiKey, isInitialized, sync, usage_stats,
                   pc, call, ret, started, popupVars>>

\* GrantConsentStart keeping the time of an earlier grant
GrantConsentStartKeepsTimestamp ==
    /\ ui.op = "idle"
    /\ consentGiven' = TRUE
    /\ consentTimestamp' = IF consentTimestamp # NoTimestamp
                           THEN consentTimestamp ELSE clock
    /\ consentVersion' = "1.0"
    /\ sync' = [sync EXCEPT !.user_consent = "true",
                            !.consent_timestamp = consentTimestamp',
                            !.consent_version = "1.0"]
    /\ ui' = [op |-> "grant", rd |-> NoRecord]
    /\ UNCHANGED <<clock, requests, apiKey, isInitialized, usage_stats, pc,
                   call, ret, started, popupVars>>

\* consentManager.grantConsent(), up to its await
GrantConsentStart ==
    /\ ui.op = "idle"
    /\ consentGiven' = TRUE
    /\ consentTimestamp' = clock
    /\ consentVersion' = "1.0"
    /\ sync' = [sync EXCEPT !.user_consent = "true",
                            !.consent_timestamp = clock,
                            !.consent_version = "1.0"]
    /\ ui' = [op |-> "grant", rd |-> NoRecord]
    /\ UNCHANGED <<clock, requests, apiKey, isInitialized, usage_stats, pc,
                   call, ret, started, popupVars>>

GrantConsentDone ==
    /\ ui.op = "grant"
    /\ ui' = IdleUi
    /\ UNCHANGED <<clock, requests, consentGiven, consentTimestamp,
                   consentVersion, apiKey, isInitialized, sync, usage_stats,
                   pc, call, ret, started, popupVars>>

\* consentManager.revokeConsent(), up to its first await
RevokeConsentStart ==
    /\ ui.op = "idle"
    /\ consentGiven' = FALSE
    /\ consentTimestamp' = NoTimestamp
    /\ sync' = [sync EXCEPT !.user_consent = "false",
                            !.consent_timestamp = NoTimestamp]
    /\ ui' = [op |-> "revoke_set", rd |-> NoRecord]
    /\ UNCHANGED <<clock, requests, consentVersion, apiKey, isInitialized,
                   usage_stats, pc, call, ret, started, popupVars>>

\* revokeConsent between its awaits: the key is removed from the store
RevokeConsentRemove ==
    /\ ui.op = "revoke_set"
    /\ sync' = [sync EXCEPT !.openai_api_key = NoKey]
    /\ ui' = [op |-> "revoke_remove", rd |-> NoRecord]
    /\ UNCHANGED <<clock, requests, consentGiven, consentTimestamp,
                   consentVersion, apiKey, isInitialized, usage_stats, pc,
                   call, ret, started, popupVars>>

RevokeConsentDone ==
    /\ ui.op = "revoke_remove"
    /\ ui' = IdleUi
    /\ UNCHANGED <<clock, requests, consentGiven, consentTimestamp,
                   consentVersion, apiKey, isInitialized, sync, usage_stats,
                   pc, call, ret, started, popupVars>>

\* aiService.loadAPIKey(): the popup calls it once, as it opens, before it
\* shows any section
LoadAPIKey ==
    /\ started = 0
    /\ ui.op = "idle"
    /\ apiKey' = sync.openai_api_key
    /\ UNCHANGED <<clock, requests, consentGiven, consentTimestamp,
                   consentVersion, isInitialized, sync, usage_stats, pc,
                   call, ui, ret, started, popupVars>>

\* aiService.saveAPIKey(key): the popup calls it from its setup section,
\* which is not shown while a reply is being generated
SaveAPIKey(key) ==
    /\ \A c \in Callers : pc[c] = "idle"
    /\ ui.op = "idle"
    /\ IF key = NoKey \/ ~startsWith(key, KeyPrefix)
       THEN UNCHANGED <<sync, apiKey>>
       ELSE /\ sync' = [sync EXCEPT !.openai_api_key = key]
            /\ apiKey' = key
    /\ UNCHANGED <<clock, requests, consentGiven, consentTimestamp,
                   consentVersion, isInitialized, usage_stats, pc, call,
                   ui, ret, started, popupVars>>

(* ------------------------- generateEmailReply -------------------------- *)
\* the catch block: the failure is kept until trackUsage has been awaited
Throw(c, cl, kind) ==
    /\ pc' = [pc EXCEPT ![c] = "track"]
    /\ call' = [call EXCEPT ![c] = [cl EXCEPT !.kind = kind,
                                               !.tracked = @ + 1]]

\* from the API key check to the call of fetch, the ledger being reqs
AdmitFrom(c, cl, reqs) ==
    LET adm == Admission(apiKey, reqs, clock, cl.input)
    IN  /\ requests' = adm.requests
        /\ IF adm.kind = "fetch"
           THEN /\ pc' = [pc EXCEPT ![c] = "fetch"]
                /\ call' = [call EXCEPT ![c] =
                               [cl EXCEPT !.consulted = TRUE,
                                          !.gateway = @ + 1]]
           ELSE /\ pc' = [pc EXCEPT ![c] = "track"]
                /\ call' = [call EXCEPT ![c] =
                               [cl EXCEPT !.kind = adm.kind,
                                          !.resetTime = adm.resetTime,
                                          !.consulted = adm.consulted,
                                          !.tracked = @ + 1]]

\* from the API key check to the call of fetch
Admit(c, cl) == AdmitFrom(c, cl, requests)

\* generateEmailReply(input, tone), up to its first await, the ledger being
\* reqs when it is called
GenStartFrom(c, input, tone, reqs) ==
    /\ pc[c] = "idle"
    /\ started < MaxCalls
    /\ started' = started + 1
    /\ LET cl == [IdleCall EXCEPT !.input = input, !.tone = tone,
                                  !.requests0 = reqs]
       IN  \/ /\ ~toneAllowed(tone)
              /\ Throw(c, cl, "InvalidTone")
              /\ requests' = reqs
           \/ /\ toneAllowed(tone)
              /\ ~isInitialized
              /\ pc' = [pc EXCEPT ![c] = "init"]
              /\ call' = [call EXCEPT ![c] =
                             [cl EXCEPT !.rd = ConsentRecord(sync)]]
              /\ requests' = reqs
           \/ /\ toneAllowed(tone)
              /\ isInitialized
              /\ ~consentGiven
              /\ pc' = [pc EXCEPT ![c] = "consent"]
              /\ call' = [call EXCEPT ![c] =
                             [cl EXCEPT !.rd = ConsentRecord(sync)]]
              /\ requests' = reqs
           \/ /\ toneAllowed(tone)
              /\ isInitialized
              /\ consentGiven
              /\ AdmitFrom(c, cl, reqs)
    /\ UNCHANGED <<clock, consentGiven, consentTimestamp, consentVersion,
                   apiKey, isInitialized, sync, usage_stats, ui, ret>>

\* generateEmailReply(input, tone), up to its first await
GenStart(c, input, tone) ==
    /\ GenStartFrom(c, input, tone, requests)
    /\ UNCHANGED popupVars

\* the store has answered the initialize() of DraftlyAIService.initialize
GenInit(c) ==
    /\ pc[c] = "init"
    /\ isInitialized' = TRUE
    /\ LET f == initialize(call[c].rd, clock)
       IN  /\ consentGiven' = f.consentGiven
           /\ consentTimestamp' = f.consentTimestamp
           /\ consentVersion' = f.consentVersion
           /\ IF f.consentGiven
              THEN Admit(c, call[c])
              ELSE /\ pc' = [pc EXCEPT ![c] = "consent"]
                   /\ call' = [call EXCEPT ![c].rd = ConsentRecord(sync)]
                   /\ UNCHANGED requests
    /\ UNCHANGED <<clock, apiKey, sync, usage_stats, ui, ret, started, popupVars>>

\* the store has answered the initialize() of hasConsent
GenConsent(c) ==
    /\ pc[c] = "consent"
    /\ LET f == initialize(call[c].rd, clock)
       IN  /\ consentGiven' = f.consentGiven
           /\ consentTimestamp' = f.consentTimestamp
           /\ consentVersion' = f.consentVersion
           /\ IF f.consentGiven
              THEN Admit(c, call[c])
              ELSE /\ Throw(c, call[c], "ConsentRequired")
                   /\ UNCHANGED requests
    /\ UNCHANGED <<clock, apiKey, isInitialized, sync, usage_stats, ui, ret, started,
                   popupVars>>

\* GenResponse recording the request before it looks at the answer
GenResponseRecordsFirst(c, resp) ==
    /\ pc[c] = "fetch"
    /\ requests' = recordRequest(requests, clock)
    /\ LET r == callOpenAI(resp)
       IN  call' = [call EXCEPT ![c].kind = r.kind, ![c].text = r.text,
                                ![c].recorded = @ + 1, ![c].resp = resp,
                                ![c].code = r.code, ![c].tracked = @ + 1]
    /\ pc' = [pc EXCEPT ![c] = "track"]
    /\ UNCHANGED <<clock, consentGiven, consentTimestamp, consentVersion,
                   apiKey, isInitialized, sync, usage_stats, ui, ret,
                   started, popupVars>>

\* the endpoint has answered the fetch of callOpenAI
GenResponse(c, resp) ==
    /\ pc[c] = "fetch"
    /\ LET r == callOpenAI(resp)
       IN  IF r.kind = "Ok"
           THEN /\ requests' = recordRequest(requests, clock)
                /\ call' = [call EXCEPT ![c].kind = "Ok", ![c].text = r.text,
                                        ![c].recorded = @ + 1,
                                        ![c].resp = resp,
                                        ![c].tracked = @ + 1]
           ELSE /\ call' = [call EXCEPT ![c].kind = r.kind,
                                        ![c].code = r.code,
                                        ![c].resp = resp,
                                        ![c].tracked = @ + 1]
                /\ UNCHANGED requests
    /\ pc' = [pc EXCEPT ![c] = "track"]
    /\ UNCHANGED <<clock, consentGiven, consentTimestamp, consentVersion,
                   apiKey, isInitialized, sync, usage_stats, ui, ret,
                   started, popupVars>>

\* GenNetworkFail with a gateway that issues the request a second time
GenNetworkFailRetries(c) ==
    /\ pc[c] = "fetch"
    /\ IF call[c].gateway < 2
       THEN /\ pc' = pc
            /\ call' = [call EXCEPT ![c].gateway = @ + 1]
       ELSE Throw(c, call[c], "NetworkFailure")
    /\ UNCHANGED <<clock, requests, consentGiven, consentTimestamp,
                   consentVersion, apiKey, isInitialized, sync, usage_stats,
                   ui, ret, started, popupVars>>

\* fetch rejects: no answer from the endpoint
GenNetworkFail(c) ==
    /\ pc[c] = "fetch"
    /\ Throw(c, call[c], "NetworkFailure")
    /\ UNCHANGED <<clock, requests, consentGiven, consentTimestamp,
                   consentVersion, apiKey, isInitialized, sync, usage_stats,
                   ui, ret, started, popupVars>>

\* trackUsage has been awaited, its entry stored: the promise of
\* generateEmailReply settles, with the reply or with the error caught
GenTrack(c) ==
    /\ pc[c] = "track"
    /\ usage_stats' = IF usage_stats + 1 > 100 THEN 100 ELSE usage_stats + 1
    /\ pc' = [pc EXCEPT ![c] = "done"]
    /\ UNCHANGED <<clock, requests, consentGiven, consentTimestamp,
                   consentVersion, apiKey, isInitialized, sync, call, ui, ret,
                   started, popupVars>>

\* GenTrackFails with a trackUsage that lets the storage error out: on the
\* success path the catch block of generateEmailReply takes it and calls
\* trackUsage again; on the failure path it replaces the error thrown
GenTrackFailsThrows(c) ==
    /\ pc[c] = "track"
    /\ IF call[c].kind = "Ok"
       THEN /\ pc' = pc
            /\ call' = [call EXCEPT ![c].kind = "TrackingError",
                                    ![c].text = <<>>,
                                    ![c].tracked = @ + 1]
       ELSE /\ pc' = [pc EXCEPT ![c] = "done"]
            /\ call' = [call EXCEPT ![c].kind = "TrackingError"]
    /\ UNCHANGED <<clock, requests, consentGiven, consentTimestamp,
                   consentVersion, apiKey, isInitialized, sync, usage_stats,
                   ui, ret, started, popupVars>>

\* trackUsage has been awaited, and chrome.storage.local threw in its get or
\* in its set: trackUsage catches and logs it, nothing is stored
GenTrackFails(c) ==
    /\ pc[c] = "track"
    /\ pc' = [pc EXCEPT ![c] = "done"]
    /\ UNCHANGED <<clock, requests, consentGiven, consentTimestamp,
                   consentVersion, apiKey, isInitialized, sync, usage_stats,
                   call, ui, ret, started, popupVars>>

\* the caller takes the settled promise: the reply, or the error
GenReturn(c) ==
    /\ pc[c] = "done"
    /\ call' = [call EXCEPT ![c] = IdleCall]
    /\ pc' = [pc EXCEPT ![c] = "idle"]
    /\ UNCHANGED <<clock, requests, consentGiven, consentTimestamp,
                   consentVersion, apiKey, isInitialized, sync, usage_stats,
                   ui, ret, started, popupVars>>

\* a caller that starts its call when no other call is outstanding
SeqGenStart(c, input, tone) ==
    /\ \A d \in Callers : pc[d] = "idle"
    /\ GenStart(c, input, tone)

(* ------------------------------ specification -------------------------- *)
Next ==
    \/ Tick
    \/ HasConsentStart
    \/ HasConsentDone
    \/ GrantConsentStart
    \/ GrantConsentDone
    \/ RevokeConsentStart
    \/ RevokeConsentRemove
    \/ RevokeConsentDone
    \/ LoadAPIKey
    \/ \E key \in {ValidKey, BadKey} : SaveAPIKey(key)
    \/ \E input \in Inputs, tone \in Tones : SeqGenStart(1, input, tone)
    \/ \E c \in Callers : GenInit(c)
    \/ \E c \in Callers : GenConsent(c)
    \/ \E c \in Callers, resp \in Responses : GenResponse(c, resp)
    \/ \E c \in Callers : GenNetworkFail(c)
    \/ \E c \in Callers : GenTrack(c)
    \/ \E c \in Callers : GenReturn(c)

Spec == Init /\ [][Next]_vars

\* the rate limiter alone, under every sequence of calls of its methods
NextLimiter ==
    \/ Tick
    \/ CanMakeRequest
    \/ RecordRequest
    \/ GetResetTime
    \/ GetUsageStats

SpecLimiter == InitLimiter /\ [][NextLimiter]_vars

\* time passes, an hour and more
TickLong ==
    /\ \E o \in LongOffsets : Now0 + o > clock /\ clock' = Now0 + o
    /\ UNCHANGED <<requests, consentGiven, consentTimestamp, consentVersion,
                   apiKey, isInitialized, sync, usage_stats, pc, call,
                   ui, ret, started, popupVars>>

\* the rate limiter over more than an hour
NextLimiterLive ==
    \/ NextLimiter
    \/ TickLong

\* the clock keeps advancing
SpecLimiterLive ==
    InitLimiter /\ [][NextLimiterLive]_vars /\ WF_vars(TickLong)

\* generateEmailReply over a chrome.storage.local that may fail
NextStoreFails ==
    \/ Tick
    \/ \E input \in Inputs, tone \in Tones : SeqGenStart(1, input, tone)
    \/ \E c \in Callers : GenInit(c)
    \/ \E c \in Callers : GenConsent(c)
    \/ \E c \in Callers, resp \in Responses : GenResponse(c, resp)
    \/ \E c \in Callers : GenNetworkFail(c)
    \/ \E c \in Callers : GenTrack(c)
    \/ \E c \in Callers : GenTrackFails(c)
    \/ \E c \in Callers : GenReturn(c)

SpecStoreFails == Init /\ [][NextStoreFails]_vars

\* a minute window at its cap
LedgerMinuteFull == Burst(maxRequestsPerMinute, Now0)

\* the states in which concurrent callers find the service: those of Init,
\* and a service in use whose minute window is at its cap
InitConcurrent ==
    /\ clock = Now0
    /\ usage_stats = 0
    /\ pc = [c \in Callers |-> "idle"]
    /\ call = [c \in Callers |-> IdleCall]
    /\ ui = IdleUi
    /\ ret = Ret("none", FALSE, 0)
    /\ started = 0
    /\ generateBtn = [disabled |-> FALSE]
    /\ regenerateBtn = [disabled |-> FALSE]
    /\ emailInput = [value |-> <<>>]
    /\ currentInput = <<>>
    /\ \/ InitFresh
       \/ InitUsed
       \/ /\ requests = LedgerMinuteFull
          /\ consentGiven = TRUE
          /\ consentTimestamp = Now0 - TenDays
          /\ consentVersion = "1.0"
          /\ apiKey = ValidKey
          /\ isInitialized = TRUE
          /\ sync = Store("true", consentTimestamp, "1.0", ValidKey)

\* generateEmailReply called by any caller at any time, other calls
\* outstanding or not
NextConcurrent ==
    \/ Tick
    \/ \E c \in Callers, input \in Inputs, tone \in Tones :
           GenStart(c, input, tone)
    \/ \E c \in Callers : GenInit(c)
    \/ \E c \in Callers : GenConsent(c)
    \/ \E c \in Callers, resp \in Responses : GenResponse(c, resp)
    \/ \E c \in Callers : GenNetworkFail(c)
    \/ \E c \in Callers : GenTrack(c)
    \/ \E c \in Callers : GenReturn(c)

SpecConcurrent == InitConcurrent /\ [][NextConcurrent]_vars

(* ------------------ consent over a store that may fail ----------------- *)
\* grantConsent(), up to its await, chrome.storage.sync.set rejecting: the
\* cache holds the grant, the store is as it was
GrantConsentStartSetFails ==
    /\ ui.op = "idle"
    /\ consentGiven' = TRUE
    /\ consentTimestamp' = clock
    /\ consentVersion' = "1.0"
    /\ ui' = [op |-> "grant", rd |-> NoRecord]
    /\ UNCHANGED <<clock, requests, apiKey, isInitialized, sync, usage_stats,
                   pc, call, ret, started, popupVars>>

\* revokeConsent(), up to its first await, chrome.storage.sync.set rejecting:
\* the cache is cleared, the store is as it was
RevokeConsentStartSetFails ==
    /\ ui.op = "idle"
    /\ consentGiven' = FALSE
    /\ consentTimestamp' = NoTimestamp
    /\ ui' = [op |-> "revoke_failed", rd |-> NoRecord]
    /\ UNCHANGED <<clock, requests, consentVersion, apiKey, isInitialized,
                   sync, usage_stats, pc, call, ret, started, popupVars>>

\* the rejection of set is caught: revokeConsent returns without having
\* called remove
RevokeConsentCaught ==
    /\ ui.op = "revoke_failed"
    /\ ui' = IdleUi
    /\ UNCHANGED <<clock, requests, consentGiven, consentTimestamp,
                   consentVersion, apiKey, isInitialized, sync, usage_stats,
                   pc, call, ret, started, popupVars>>

\* revokeConsent between its awaits, chrome.storage.sync.remove rejecting:
\* the key stays in the store
RevokeConsentRemoveFails ==
    /\ ui.op = "revoke_set"
    /\ ui' = [op |-> "revoke_remove", rd |-> NoRecord]
    /\ UNCHANGED <<clock, requests, consentGiven, consentTimestamp,
                   consentVersion, apiKey, isInitialized, sync, usage_stats,
                   pc, call, ret, started, popupVars>>

\* hasConsent(), chrome.storage.sync.get rejecting in initialize: the
\* rejection is caught and the cache is as it was
HasConsentDoneGetFails ==
    /\ ui.op = "hasConsent"
    /\ ui' = IdleUi
    /\ UNCHANGED <<clock, requests, consentGiven, consentTimestamp,
                   consentVersion, apiKey, isInitialized, sync, usage_stats,
                   pc, call, ret, started, popupVars>>

\* the consent operations and the key operations of the popup, one at a
\* time, over a chrome.storage.sync that may reject
NextSyncFails ==
    \/ Tick
    \/ HasConsentStart
    \/ HasConsentDone
    \/ HasConsentDoneGetFails
    \/ GrantConsentStart
    \/ GrantConsentStartSetFails
    \/ GrantConsentDone
    \/ RevokeConsentStart
    \/ RevokeConsentStartSetFails
    \/ RevokeConsentCaught
    \/ RevokeConsentRemove
    \/ RevokeConsentRemoveFails
    \/ RevokeConsentDone
    \/ LoadAPIKey
    \/ \E key \in {ValidKey, BadKey} : SaveAPIKey(key)

SpecSyncFails == Init /\ [][NextSyncFails]_vars

(* ------------------------------- the popup ------------------------------ *)
\* validateInput(): the state it leaves the generate button in; its call of
\* canMakeRequest prunes the ledger
validateInput(value, reqs, now) ==
    LET isValid == Len(Trim(value)) > 0
    IN  [disabled |-> ~isValid \/ ~canMakeRequest(reqs, now)]

\* what the text field may hold
Values == {<<>>} \cup Inputs

\* the tones the select of the popup offers: currentTone is one of them
SelectTones == {"professional", "formal"}

\* what the completion endpoint answers to the popup's calls
PopupResponses ==
    {Response(200, NoMessage, 1, ContentText),
     Response(429, QuotaMessage, 0, ContentNone)}

\* the slot a new call of the popup takes
FreeCaller(c) ==
    /\ pc[c] = "idle"
    /\ \A d \in Callers : d < c => pc[d] # "idle"

\* user events are tasks: none runs between the settling of the promise of
\* generateEmailReply and the continuation of handleGenerateReply
NoContinuationPending == \A d \in Callers : pc[d] # "done"

\* the user edits the text field: the 'input' listener calls validateInput
InputEvent(value) ==
    /\ NoContinuationPending
    /\ emailInput' = [value |-> value]
    /\ generateBtn' = validateInput(value, requests, clock)
    /\ requests' = cleanOldRequests(requests, clock)
    /\ UNCHANGED <<clock, consentGiven, consentTimestamp, consentVersion,
                   apiKey, isInitialized, sync, usage_stats, pc, call, ui,
                   ret, started, regenerateBtn, currentInput>>

\* handleGenerateReply(), up to its await of generateEmailReply; tone is
\* currentTone
HandleGenerateReply(c, tone) ==
    LET input == Trim(emailInput.value)
        cleaned == cleanOldRequests(requests, clock)
    IN  /\ NoContinuationPending
        /\ FreeCaller(c)
        /\ IF Len(input) = 0 \/ Len(input) < 10
           THEN UNCHANGED vars
           ELSE IF ~canMakeRequest(requests, clock)
           THEN /\ requests' = cleaned
                /\ UNCHANGED <<clock, consentGiven, consentTimestamp,
                               consentVersion, apiKey, isInitialized, sync,
                               usage_stats, pc, call, ui, ret, started,
                               popupVars>>
           ELSE /\ currentInput' = input
                /\ generateBtn' = [disabled |-> TRUE]
                /\ regenerateBtn' = [disabled |-> TRUE]
                /\ UNCHANGED emailInput
                /\ GenStartFrom(c, input, tone, cleaned)

\* a click on the generate button: a disabled button fires no click
ClickGenerate(c, tone) ==
    /\ ~generateBtn.disabled
    /\ HandleGenerateReply(c, tone)

\* a click on the regenerate button: handleRegenerateReply
ClickRegenerate(c, tone) ==
    /\ ~regenerateBtn.disabled
    /\ currentInput # <<>>
    /\ HandleGenerateReply(c, tone)

\* Ctrl+Enter: the keydown listener of the document
KeydownCtrlEnter(c, tone) == HandleGenerateReply(c, tone)

\* handleGenerateReply() after its await: the reply or the error is shown,
\* and the finally block calls setLoadingState(generateBtn, false)
HandleGenerateReplyDone(c) ==
    /\ pc[c] = "done"
    /\ call' = [call EXCEPT ![c] = IdleCall]
    /\ pc' = [pc EXCEPT ![c] = "idle"]
    /\ generateBtn' = validateInput(emailInput.value, requests, clock)
    /\ requests' = cleanOldRequests(requests, clock)
    /\ regenerateBtn' = [disabled |-> FALSE]
    /\ UNCHANGED <<clock, consentGiven, consentTimestamp, consentVersion,
                   apiKey, isInitialized, sync, usage_stats, ui, ret,
                   started, emailInput, currentInput>>

NextPopup ==
    \/ Tick
    \/ LoadAPIKey
    \/ \E value \in Values : InputEvent(value)
    \/ \E c \in Callers, tone \in SelectTones : ClickGenerate(c, tone)
    \/ \E c \in Callers, tone \in SelectTones : ClickRegenerate(c, tone)
    \/ \E c \in Callers, tone \in SelectTones : KeydownCtrlEnter(c, tone)
    \/ \E c \in Callers : GenInit(c)
    \/ \E c \in Callers : GenConsent(c)
    \/ \E c \in Callers, resp \in PopupResponses : GenResponse(c, resp)
    \/ \E c \in Callers : GenNetworkFail(c)
    \/ \E c \in Callers : GenTrack(c)
    \/ \E c \in Callers : HandleGenerateReplyDone(c)

SpecPopup == Init /\ [][NextPopup]_vars

(* ------------------------------ the claims ----------------------------- *)
\* the consent the store holds is granted and, at this moment, unexpired
ConsentValid ==
    /\ sync.user_consent = "true"
    /\ clock - sync.consent_timestamp <= 180 * 24 * 60 * 60

\* the step in which call c leaves the consent check: it fails, or goes on
\* to the rate limiter and the gateway
PastConsent(c) ==
    /\ pc[c] \in {"idle", "init", "consent"}
    /\ pc'[c] \in {"fetch", "track"}
    /\ call'[c].kind # "InvalidTone"

\* C1: generate never consults the rate limiter or issues the network request
\* unless consent is granted and unexpired at that moment: with consent
\* absent, revoked or older than 180 days it fails with ConsentRequired,
\* the limiter not consulted and the gateway not invoked.
C1_NoRequestWithoutConsent ==
    [][\A c \in Callers :
          (PastConsent(c) /\ ~ConsentValid) =>
              /\ call'[c].kind = "ConsentRequired"
              /\ ~call'[c].consulted
              /\ call'[c].gateway = 0]_vars

\* hasConsent() called now returns at once, and returns true: the flag is
\* cached, and initialize is not called
ReturnsCached == ui.op = "idle" /\ consentGiven

\* C2: with a consent granted at T in the store (and not revoked), hasConsent
\* at T' returns true when T' - T <= 180 days and false when T' - T > 180
\* days, whatever the instance has cached.
C2_ConsentIsFunctionOfTime ==
    /\ [](ReturnsCached /\ sync.user_consent = "true" =>
             clock - sync.consent_timestamp <= 180 * 24 * 60 * 60)
    /\ [][(HasConsentDone /\ sync.user_consent = "true") =>
             (consentGiven' <=>
                 clock - sync.consent_timestamp <= 180 * 24 * 60 * 60)]_vars

\* revokeConsent has completed and no grantConsent has been called since
Revoked == sync.user_consent = "false" /\ ui.op = "idle"

\* C3: once revokeConsent has completed, the store holds no credential, and
\* every hasConsent() that follows (no grantConsent in between) returns false.
C3_RevokedStaysRevoked ==
    /\ [](Revoked => ~ReturnsCached)
    /\ [][/\ RevokeConsentDone => sync'.openai_api_key = NoKey
          /\ (HasConsentDone /\ sync.user_consent = "false") =>
                 ~consentGiven']_vars

\* the ledger entries in the window of the given length that ends at t
CountAt(reqs, t, length) ==
    Cardinality({i \in DOMAIN reqs : reqs[i] <= t /\ t - reqs[i] < length})

\* the instants at which a trailing window is looked at: now, and every
\* instant at which a request was recorded
Instants == {clock} \cup {requests[i] : i \in DOMAIN requests}

\* the step in which call c consults canMakeRequest
Consults(c) == ~call[c].consulted /\ call'[c].consulted

\* C4: canMakeRequest is false once 15 ledger entries lie within the last
\* 60 s, and true again only when the oldest entry of such a full window is at
\* least 60 s old; so, with calls that do not overlap, no trailing 60 s window
\* ever holds more than 15 recorded requests and no trailing hour more than
\* 100.
C4_CapsHold ==
    /\ [](\A t \in Instants :
             /\ CountAt(requests, t, 60) <= 15
             /\ CountAt(requests, t, 3600) <= 100)
    /\ [][\A c \in Callers :
             Consults(c) =>
                 /\ CountAt(requests, clock, 60) >= 15 =>
                        call'[c].kind = "RateLimited"
                 /\ call'[c].kind # "RateLimited" =>
                        \A i \in DOMAIN requests :
                            i + 14 <= Len(requests) =>
                                clock - requests[i] >= 60]_vars

\* a second call is refused: the first one filled the minute window
C4_Witness ==
    \E c \in Callers :
        /\ pc[c] = "track"
        /\ call[c].kind = "RateLimited"
        /\ started = 2
        /\ CountAt(requests, clock, 60) = 15

C6_RateLimitedBeforeGateway ==
    /\ [](\A c \in Callers :
             (pc[c] = "track" /\ call[c].kind = "RateLimited") =>
                 /\ call[c].resetTime > 0
                 /\ call[c].gateway = 0
                 /\ call[c].recorded = 0)
    /\ [][\A c \in Callers :
             (Consults(c) /\ (CountAt(requests, clock, 60) >= 15
                              \/ CountAt(requests, clock, 3600) >= 100)) =>
                 /\ pc'[c] = "track"
                 /\ call'[c].kind = "RateLimited"]_vars

\* a call refused by the hour cap while the minute window is below its cap
C6_Witness ==
    \E c \in Callers :
        /\ pc[c] = "track"
        /\ call[c].kind = "RateLimited"
        /\ CountAt(requests, clock, 60) < 15

\* call c has failed: it is about to throw
Failed(c) == pc[c] = "track" /\ call[c].kind # "Ok"

\* C7 as stated: a call that fails has not called recordRequest, and the
\* ledger is as it was when the call began.
C7_LedgerUntouched ==
    \A c \in Callers :
        Failed(c) => call[c].recorded = 0 /\ requests = call[c].requests0

\* s is what is left of t once some of its oldest entries, all of them an
\* hour old or older, are removed
Pruned(s, t) ==
    \E k \in 0..Len(t) :
        /\ s = SubSeq(t, k + 1, Len(t))
        /\ \A i \in 1..k : clock - t[i] >= 3600

\* C7 amended: a call that fails has not called recordRequest, and the ledger
\* holds no entry it did not hold when the call began: it is that ledger less
\* the entries an hour old or older, which the admission check removes.
C7_NoBudgetConsumed ==
    \A c \in Callers :
        Failed(c) => call[c].recorded = 0 /\ Pruned(requests, call[c].requests0)

\* the provider has refused the request of a call whose admission check
\* removed an expired entry
C7_Witness ==
    \E c \in Callers :
        /\ Failed(c)
        /\ call[c].kind = "AuthError"
        /\ requests # call[c].requests0

\* a message of at least 10 characters after trimming
ValidInput(input) == Len(Trim(input)) >= 10

\* a message that is blank after trimming
BlankInput(input) == Len(Trim(input)) = 0

\* the four tones of the specification
FourTones == {"professional", "friendly", "formal", "casual"}

\* C8: with consent granted and unexpired, a well-formed key, a ledger that
\* admits, a valid input and one of the four tones, generate goes to the
\* gateway (once), records once after the provider's answer and returns its
\* text.
C8_HappyPath ==
    /\ [][\A c \in Callers :
             (/\ pc[c] = "idle" /\ pc'[c] # "idle"
              /\ ConsentValid
              /\ hasAPIKey(apiKey)
              /\ CountAt(requests, clock, 60) < 15
              /\ CountAt(requests, clock, 3600) < 100
              /\ ValidInput(call'[c].input)
              /\ call'[c].tone \in FourTones) =>
                 pc'[c] \in {"init", "consent", "fetch"}]_vars
    /\ [](\A c \in Callers :
             (pc[c] = "track" /\ call[c].kind = "Ok") =>
                 /\ call[c].gateway = 1
                 /\ call[c].recorded = 1
                 /\ call[c].text # <<>>)

\* C9: a tone outside the four is refused by tone validation before the
\* gateway, and none of the four tones is refused by tone validation.
C9_ToneEnumClosed ==
    \A c \in Callers :
        pc[c] # "idle" =>
            /\ toLowerCase(call[c].tone) \notin FourTones =>
                   call[c].kind = "InvalidTone" /\ call[c].gateway = 0
            /\ call[c].tone \in FourTones => call[c].kind # "InvalidTone"

\* C10: a call whose input is blank fails at once with EmptyInput, before any
\* await, whatever the consent, the credential and the ledger.
C10_EmptyInputFirst ==
    \A c \in Callers :
        (/\ pc[c] # "idle"
         /\ BlankInput(call[c].input)
         /\ toneAllowed(call[c].tone)) =>
            /\ pc[c] = "track"
            /\ call[c].kind = "EmptyInput"
            /\ call[c].gateway = 0

\* a message that is not blank and has fewer than 10 characters after trimming
ShortInput(input) == Len(Trim(input)) > 0 /\ Len(Trim(input)) < 10

\* C11: a call whose input is not blank but shorter than 10 characters after
\* trimming fails with InputTooShort, issues no network request and records no
\* request.
C11_InputTooShort ==
    \A c \in Callers :
        (/\ pc[c] # "idle"
         /\ ShortInput(call[c].input)
         /\ toneAllowed(call[c].tone)) =>
            /\ call[c].gateway = 0
            /\ call[c].recorded = 0
            /\ pc[c] \in {"track", "done"} => call[c].kind = "InputTooShort"

\* the failure kind the claim gives for a response that is not a success
KindOfStatus(resp) ==
    CASE resp.status = 401 -> "AuthError"
      [] resp.status = 429 /\ resp.message = QuotaMessage -> "QuotaExceeded"
      [] resp.status = 429 /\ resp.message # QuotaMessage ->
             "ProviderRateLimited"
      [] resp.status = 400 -> "BadRequest"
      [] resp.status = 403 -> "Forbidden"
      [] OTHER -> "ProviderError"

\* the endpoint has answered call c
Answered(c) == pc[c] \in {"track", "done"} /\ call[c].resp # NoResponse

\* C12: for a response that is not a success the gateway raises the one
\* failure kind its status gives: 401 AuthError, 429 QuotaExceeded when the
\* message has the quota wording and ProviderRateLimited otherwise (no message
\* included), 400 BadRequest, 403 Forbidden, any other status ProviderError
\* with the status code.
C12_StatusClassification ==
    \A c \in Callers :
        (Answered(c) /\ ~ok(call[c].resp)) =>
            /\ call[c].kind = KindOfStatus(call[c].resp)
            /\ call[c].kind = "ProviderError" =>
                   call[c].code = call[c].resp.status
            /\ call[c].recorded = 0

\* a 429 without an error message has been classified
C12_Witness ==
    \E c \in Callers :
        /\ Answered(c)
        /\ call[c].resp.status = 429
        /\ call[c].resp.message = NoMessage
        /\ call[c].kind = "ProviderRateLimited"

\* n blanks
Blanks(n) == [i \in 1..n |-> " "]

\* text is content without the blanks at its two ends
TrimmedOf(text, content) ==
    /\ text # <<>>
    /\ ~Blank(Head(text))
    /\ ~Blank(text[Len(text)])
    /\ \E i \in 0..Len(content), j \in 0..Len(content) :
           content = Blanks(i) \o text \o Blanks(j)

\* the content of the first choice is missing, or nothing but blanks
NoText(content) == \A i \in DOMAIN content : Blank(content[i])

\* C13: on a success status the gateway returns the trimmed text of the first
\* choice, and fails with EmptyCompletion when there is no choice or when the
\* text of the first is missing or blank; a successful result of generate
\* carries a text that is not empty.
C13_CompletionText ==
    \A c \in Callers :
        /\ (Answered(c) /\ ok(call[c].resp)) =>
               IF call[c].resp.choices = 0 \/ NoText(call[c].resp.content)
               THEN call[c].kind = "EmptyCompletion" /\ call[c].recorded = 0
               ELSE /\ call[c].kind = "Ok"
                    /\ TrimmedOf(call[c].text, call[c].resp.content)
        /\ (pc[c] \in {"track", "done"} /\ call[c].kind = "Ok") =>
               call[c].text # <<>>

\* a reply has been returned that is shorter than the content the provider
\* sent: the blanks around it are gone
C13_Witness ==
    \E c \in Callers :
        /\ pc[c] = "done"
        /\ call[c].kind = "Ok"
        /\ Len(call[c].text) < Len(call[c].resp.content)

\* C14: trackUsage is called exactly once by a generate call, on the success
\* path and on the failure path, and whether or not its storage fails the
\* call settles with what it had before tracking: the reply when the gateway
\* succeeded, the original failure otherwise.
C14_TrackingBestEffort ==
    /\ [](\A c \in Callers :
             /\ pc[c] \in {"track", "done"} => call[c].tracked = 1
             /\ pc[c] \in {"init", "consent", "fetch"} => call[c].tracked = 0
             /\ (pc[c] = "done" /\ call[c].recorded = 1) =>
                    call[c].kind = "Ok" /\ call[c].text # <<>>)
    /\ [][\A c \in Callers :
             pc[c] = "track" =>
                 /\ pc'[c] \in {"track", "done"}
                 /\ call'[c] = call[c]]_vars

\* a reply has been returned by a call whose usage entry could not be stored
C14_Witness ==
    \E c \in Callers :
        /\ pc[c] = "done"
        /\ call[c].kind = "Ok"
        /\ call[c].tracked = 1
        /\ usage_stats = 0

\* C15: a generate call issues at most one network request, and a call that
\* has failed goes to its end without another request.
C15_NoRetries ==
    /\ [](\A c \in Callers : call[c].gateway <= 1)
    /\ [][\A c \in Callers :
             /\ pc[c] = "fetch" => pc'[c] \in {"fetch", "track"}
             /\ pc[c] = "track" => pc'[c] \in {"track", "done"}
             /\ pc[c] = "done" => pc'[c] \in {"done", "idle"}
             /\ pc[c] \in {"track", "done"} =>
                    call'[c].gateway <= call[c].gateway]_vars

\* a call whose one request got no answer has ended with that failure
C15_Witness ==
    \E c \in Callers :
        /\ pc[c] = "done"
        /\ call[c].kind = "NetworkFailure"
        /\ call[c].gateway = 1

\* the oldest ledger entry that is less than 60 s old, when there is one
HasRecent(reqs, now) == \E i \in DOMAIN reqs : now - reqs[i] < 60

OldestRecent(reqs, now) ==
    CHOOSE t \in {reqs[i] : i \in DOMAIN reqs} :
        /\ now - t < 60
        /\ \A i \in DOMAIN reqs : now - reqs[i] < 60 => t <= reqs[i]

\* C16: getResetTime returns 0 for an empty ledger and otherwise
\* max(0, 60 s - (now - oldest)), oldest being the oldest entry within the
\* minute window; in every ledger state the result is a number from 0 to 60 s.
C16_ResetTimeRange ==
    [][GetResetTime =>
          /\ ret'.num >= 0
          /\ ret'.num <= 60
          /\ requests = <<>> => ret'.num = 0
          /\ HasRecent(requests, clock) =>
                 ret'.num = Max(0, 60 - (clock - OldestRecent(requests, clock)))
      ]_vars

\* C17: between two getResetTime calls with no recordRequest in between and a
\* clock that does not go back, the value returned does not rise. Stated for
\* the calls that find an entry in the minute window, before and after: what
\* is returned when there is none is the matter of C16.
C17_ResetTimeNonIncreasing ==
    [][(/\ GetResetTime
        /\ ret.op = "getResetTime"
        /\ ret.num < Infinity
        /\ HasRecent(requests, clock)) => ret'.num <= ret.num]_vars

\* C18: getUsageStats reports N and N when the ledger holds N entries, N below
\* both caps, all made within the last second; it never reports more for the
\* minute than for the hour; and it leaves the ledger, hence every later
\* canMakeRequest, as it was.
C18_UsageStats ==
    [][GetUsageStats =>
          /\ ret'.requestsThisMinute <= ret'.requestsThisHour
          /\ ret'.requestsThisMinute = CountAt(requests, clock, 60)
          /\ ret'.requestsThisHour = CountAt(requests, clock, 3600)
          /\ (/\ Len(requests) < 15
              /\ \A i \in DOMAIN requests : clock - requests[i] <= 1) =>
                 /\ ret'.requestsThisMinute = Len(requests)
                 /\ ret'.requestsThisHour = Len(requests)
          /\ requests' = requests
          /\ canMakeRequest(requests', clock') = canMakeRequest(requests, clock)
      ]_vars

\* two requests recorded by a fresh limiter, and both reported
C18_Witness ==
    /\ ret.op = "getUsageStats"
    /\ started = 2
    /\ Len(requests) = 2
    /\ ret.requestsThisMinute = 2
    /\ ret.requestsThisHour = 2

\* the ledger is in ascending order
Ascending(reqs) ==
    \A i \in DOMAIN reqs, j \in DOMAIN reqs : i < j => reqs[i] <= reqs[j]

\* C19: the ledger is in ascending order, and whenever canMakeRequest,
\* getResetTime or getUsageStats computes its result every entry of the ledger
\* is less than an hour old.
C19_LedgerWithinHour ==
    /\ [](Ascending(requests))
    /\ [][CanMakeRequest =>
             \A i \in DOMAIN requests' : clock - requests'[i] < 3600]_vars
    /\ [][(GetResetTime \/ GetUsageStats) =>
             \A i \in DOMAIN requests : clock - requests[i] < 3600]_vars

\* C20: whenever the cached flag is true the cached timestamp is set, and
\* whenever the store holds user_consent true it holds a consent_timestamp.
C20_GrantedHasTimestamp ==
    /\ consentGiven => consentTimestamp # NoTimestamp
    /\ sync.user_consent = "true" => sync.consent_timestamp # NoTimestamp

\* a consent granted in this session, cached and stored with its timestamp
C20_Witness ==
    /\ consentGiven
    /\ consentTimestamp > Now0
    /\ sync.user_consent = "true"
    /\ sync.consent_timestamp = consentTimestamp

\* C21: getConsentInfo returns expiresAt = grantedAt + 180 days when it
\* reports granted, and no expiresAt whenever it reports not granted, a
\* consent found expired on load included.
C21_ExpiresAt ==
    LET info == getConsentInfo(consentGiven, consentTimestamp, consentVersion)
    IN  /\ info.granted =>
               info.expiresAt = consentTimestamp + 180 * 24 * 60 * 60
        /\ ~info.granted => info.expiresAt = NoTimestamp

\* the record r is a grant that is more than 180 days old at the time now
Expired(r, now) ==
    r.user_consent = "true" /\ now - r.consent_timestamp > 180 * 24 * 60 * 60

\* C22: a load that finds the persisted consent expired treats it as not
\* granted and leaves the persisted record and the stored credential as they
\* are; only grantConsent and revokeConsent write the consent record.
C22_LazyExpiry ==
    [][/\ ConsentRecord(sync') # ConsentRecord(sync) =>
              (GrantConsentStart \/ RevokeConsentStart)
       /\ HasConsentDone =>
              /\ sync' = sync
              /\ Expired(ui.rd, clock) => ~consentGiven'
       /\ \A c \in Callers :
              (GenInit(c) \/ GenConsent(c)) =>
                  /\ sync' = sync
                  /\ Expired(call[c].rd, clock) => ~consentGiven'
      ]_vars

\* hasConsent has loaded a grant of more than 180 days ago: it is cached as
\* not granted, and the store still holds the grant and the key
C22_Witness ==
    /\ ui.op = "idle"
    /\ ~isInitialized
    /\ ~consentGiven
    /\ consentTimestamp # NoTimestamp
    /\ Expired(ConsentRecord(sync), clock)
    /\ sync.consent_timestamp = consentTimestamp
    /\ sync.openai_api_key = ValidKey

\* what hasConsent() called now returns, the store answering with what it
\* holds now
HasConsentAnswer ==
    consentGiven \/ initialize(ConsentRecord(sync), clock).consentGiven

\* C23: grantConsent makes the state granted from any state, with grantedAt
\* the current time and the version the current one, in the cache and in the
\* store; hasConsent is then true for the 180 days that follow the latest
\* grant.
C23_GrantRenews ==
    /\ [][GrantConsentStart =>
             /\ consentGiven'
             /\ consentTimestamp' = clock
             /\ consentVersion' = "1.0"
             /\ ConsentRecord(sync') =
                    [user_consent |-> "true", consent_timestamp |-> clock,
                     consent_version |-> "1.0"]]_vars
    /\ [][(/\ HasConsentDone
           /\ sync.user_consent = "true"
           /\ clock - sync.consent_timestamp <= 180 * 24 * 60 * 60) =>
             consentGiven']_vars
    /\ []((/\ ui.op = "idle"
           /\ sync.user_consent = "true"
           /\ clock - sync.consent_timestamp <= 180 * 24 * 60 * 60) =>
             HasConsentAnswer)

\* the grant of a service in use, 180 days and a second old, has been renewed
C23_Witness ==
    /\ requests = LedgerMinute
    /\ ui.op = "idle"
    /\ consentGiven
    /\ consentTimestamp > Now0
    /\ sync.user_consent = "true"
    /\ sync.consent_timestamp = consentTimestamp

\* C24: with concurrent generate calls the admission check is not atomic:
\* calls in flight can all pass canMakeRequest before any of them records, and
\* the entries within a minute window then exceed the cap of 15, by at most
\* one less than the number of concurrent callers (by one with two callers).
C24_RaceBound ==
    \A t \in Instants : CountAt(requests, t, 60) <= 15 + NumCallers - 1

\* two calls passed the admission check with 14 entries in the minute window,
\* and both have recorded
C24_Witness ==
    /\ CountAt(requests, clock, 60) = 15 + NumCallers - 1
    /\ \A c \in Callers : call[c].recorded = 1

\* the stages in which handleGenerateReply awaits the service
Awaiting == {"init", "consent", "fetch", "track"}

\* C25: the popup never has two generate calls outstanding at once: while
\* one handleGenerateReply awaits the service, no click on the generate or the
\* regenerate button and no Ctrl+Enter starts a second call.
C25_OneOutstanding ==
    Cardinality({c \in Callers : pc[c] \in Awaiting}) <= 1

\* the failures of generate that are about the credential
CredentialFailures == {"MissingCredential", "InvalidCredentialFormat"}

\* the parts of C26 about the two failures themselves: MissingCredential with
\* no key, InvalidCredentialFormat with a key that lacks the prefix 'sk-',
\* neither with a network request or a ledger entry
C26_NoRequestNoEntry ==
    \A c \in Callers :
        /\ call[c].kind \in CredentialFailures =>
               /\ call[c].gateway = 0
               /\ call[c].recorded = 0
               /\ Len(requests) <= Len(call[c].requests0)
        /\ call[c].kind = "MissingCredential" => apiKey = NoKey
        /\ call[c].kind = "InvalidCredentialFormat" =>
               apiKey # NoKey /\ ~startsWith(apiKey, KeyPrefix)

\* C26: generate fails with MissingCredential when no credential is
\* configured and with InvalidCredentialFormat when the credential does not
\* start with 'sk-', in both cases with no network request and no ledger
\* entry; a service just constructed, which has neither loaded nor saved a
\* credential, is in the MissingCredential case.
C26_FreshIsMissingCredential ==
    /\ C26_NoRequestNoEntry
    /\ \A c \in Callers :
           apiKey = DefaultKey /\ call[c].kind \in CredentialFailures =>
               call[c].kind = "MissingCredential"

\* what canMakeRequest() would return now
Admits == canMakeRequest(requests, clock)

\* C27: limits reset by the passing of time alone: when canMakeRequest is
\* false and no further recordRequest occurs, it becomes true as the clock
\* advances, at the latest 3600 s after the last recorded request, and once
\* true it stays true until the next recordRequest.
C27_LimitsReset ==
    /\ []((\A i \in DOMAIN requests : clock - requests[i] >= 3600) => Admits)
    /\ [][Admits /\ started' = started => Admits']_vars
    /\ \A n \in 0..MaxCalls :
           (~Admits /\ started = n) ~> (Admits \/ started > n)

\* a ledger that did not admit at Now0 admits now, untouched, an hour after
\* its last entry
C27_Witness ==
    /\ ~canMakeRequest(requests, Now0)
    /\ requests # <<>>
    /\ started = 0
    /\ \A i \in DOMAIN requests : clock - requests[i] >= 3600
    /\ Admits

\* no consent operation and no load of the consent record is suspended
ConsentQuiescent ==
    /\ ui.op = "idle"
    /\ \A c \in Callers : pc[c] \notin {"init", "consent"}

\* C28: a revocation is not overwritten by a stale load: when revokeConsent
\* ran while an initialize() was suspended on its read of the granted record,
\* then once both have completed the cached flag is false, as the stored
\* record says, and hasConsent() returns false; and a completed grant is not
\* lost to a stale load of the record that preceded it: hasConsent() returns
\* true.
C28_NoStaleLoad ==
    ConsentQuiescent =>
        /\ sync.user_consent = "false" => ~consentGiven
        /\ sync.user_consent = "false" => ~HasConsentAnswer
        /\ (sync.user_consent = "true" /\ ~Expired(ConsentRecord(sync), clock))
               => HasConsentAnswer

\* the step in which grantConsent or revokeConsent returns
ConsentOpReturns ==
    ui.op \in {"grant", "revoke_remove", "revoke_failed"} /\ ui'.op = "idle"

\* the step in which revokeConsent returns
RevokeReturns ==
    ui.op \in {"revoke_remove", "revoke_failed"} /\ ui'.op = "idle"

\* C29: the cached consent record does not diverge from the stored one when
\* the store fails: after a completed grantConsent or revokeConsent the cached
\* flag equals the stored user_consent; hasConsent() does not return true for
\* a grant that was not stored; and after a revokeConsent the stored
\* credential is gone and hasConsent() does not return true.
C29_CacheMatchesStore ==
    /\ [][ConsentOpReturns =>
              (consentGiven' <=> sync'.user_consent = "true")]_vars
    /\ [][RevokeReturns =>
              (sync'.openai_api_key = NoKey /\ ~HasConsentAnswer')]_vars
    /\ [](ui.op = "idle" /\ sync.user_consent # "true" => ~HasConsentAnswer)

\* the step in which call c issues its network request
IssuesRequest(c) == pc[c] # "fetch" /\ pc'[c] = "fetch"

\* a generate call issues its request with the credential the store holds
C30_RequestsUseStoredKey ==
    [][\A c \in Callers :
           IssuesRequest(c) => apiKey' = sync'.openai_api_key]_vars

\* C30: the purge of the credential on revocation reaches the running
\* service: once revokeConsent has completed, hasAPIKey() is false, and a
\* later grantConsent alone does not let generate issue a network request
\* with the purged credential.
C30_PurgeReachesService ==
    /\ [][RevokeConsentDone => ~hasAPIKey(apiKey')]_vars
    /\ C30_RequestsUseStoredKey

====
